---- MODULE Spec2Model ----
(***************************************************************************)
(* zchat: a generated shell command is displayed, screened against a list  *)
(* of dangerous substrings (executor.IsDangerous), confirmed by the        *)
(* operator (ui.Display) and run through a shell (executor.SafeExecutor).  *)
(*                                                                         *)
(* A Go string is a sequence of one-character strings: "rm" is             *)
(* <<"r", "m">>.  Format strings and opaque values (shell path, provider)  *)
(* are TLA+ strings.                                                       *)
(***************************************************************************)
EXTENDS Integers, Sequences, FiniteSets, TLC

VARIABLES
    pc,          \* position of the process in main; for direct calls "unit",
                 \* and "unitWait" while Execute waits for the shell
    stdin,       \* unread characters of os.Stdin behind Display.reader
    stdin0,      \* history: the stream as it was when the process started
    stdinEnd,    \* the error the stream returns once it is exhausted
    patterns,    \* cfg.DangerousPatterns
    provider,    \* cfg.Provider
    shell,       \* sysCtx.Shell
    command,     \* the generated command
    ctxDone,     \* the 30 s context created in main has expired
    expiredAtPrompt, \* history: it expired while a prompt waited for its line
    verdict,     \* IsDangerous's result as received by its caller
    strictRet,   \* ShowDangerWarning's result and the data its read returned
    confirmRet,  \* ConfirmExecution's result and the data its read returned
    exec,        \* the SafeExecutor
    execRet,     \* Execute's result, and whether a subprocess was started
    out,         \* everything printed, in order
    events,      \* history: the steps of the run, in order
    reads,       \* history: number of ReadString calls
    exitCode,    \* process exit status, NotExited while running
    response,    \* the text the model provider answered with
    parsed,      \* parseCommandFromResponse's result
    generated,   \* the client's GenerateCommand result after a response
    lsOutput,    \* what `ls -1` prints in the working directory
    lsFails,     \* `ls -1` ends with an error
    getwdFails,  \* os.Getwd returns an error
    maxFiles,    \* DefaultCollector.maxFiles
    fileList,    \* getFileList's result
    sysCtx       \* Collect's result

\* the state of a run of main and of package executor
mainVars == <<pc, stdin, stdin0, stdinEnd, patterns, provider, shell, command,
              ctxDone, expiredAtPrompt, verdict, strictRet, confirmRet, exec,
              execRet, out, events, reads, exitCode>>

\* the state of direct calls into package llm and into package context
llmVars == <<response, parsed, generated>>
collectVars == <<lsOutput, lsFails, getwdFails, maxFiles, fileList, sysCtx>>

vars == <<mainVars, llmVars, collectVars>>

-----------------------------------------------------------------------------
(* Bounds of the model *)

\* lines (newline-terminated or final fragments) typed on stdin
MaxLines == 2
\* length of a command handed to the classifier directly
MaxCmdLen == 3
\* number of entries of a pattern list handed to the classifier directly
MaxPatterns == 2
\* pieces (fence, backtick, blank, newline, word) a response is made of
MaxTokens == 5
\* lines `ls -1` prints
MaxEntries == 3
\* largest file limit a collector is made with
MaxLimit == 2

-----------------------------------------------------------------------------
(* strings: ToLower, TrimSpace, Contains, as main and the packages use them *)

\* characters a string of this module cannot hold are written by their code
\* point: U+000B is the vertical tab, U+212A the Kelvin sign
VT == "U+000B"
NEL == "U+0085"
NBSP == "U+00A0"
UpperEAcute == "U+00C9"
LowerEAcute == "U+00E9"
UpperSigma == "U+03A3"
LowerSigma == "U+03C3"
KelvinSign == "U+212A"

\* unicode.ToLower on the letters of the model: A-Z, and of the letters
\* outside ASCII an accented capital, a Greek capital and the Kelvin sign,
\* whose lower case is the ASCII k
Upper == <<"A", "B", "C", "D", "E", "F", "G", "H", "I", "J", "K", "L", "M",
           "N", "O", "P", "Q", "R", "S", "T", "U", "V", "W", "X", "Y", "Z",
           UpperEAcute, UpperSigma, KelvinSign>>
Lower == <<"a", "b", "c", "d", "e", "f", "g", "h", "i", "j", "k", "l", "m",
           "n", "o", "p", "q", "r", "s", "t", "u", "v", "w", "x", "y", "z",
           LowerEAcute, LowerSigma, "k">>

ToLowerChar(c) ==
    IF \E i \in 1..Len(Upper) : Upper[i] = c
    THEN Lower[CHOOSE i \in 1..Len(Upper) : Upper[i] = c]
    ELSE c

\* the mutant of ToLower: only the first character is folded
ToLowerFirstOnly(s) ==
    [i \in 1..Len(s) |-> IF i = 1 THEN ToLowerChar(s[i]) ELSE s[i]]

\* strings.ToLower
ToLower(s) == [i \in 1..Len(s) |-> ToLowerChar(s[i])]

\* the space characters outside Latin-1: U+1680, U+2000 to U+200A, the
\* line and paragraph separators, U+202F, U+205F and U+3000
UnicodeSpaces ==
    { "U+1680", "U+2000", "U+2001", "U+2002", "U+2003", "U+2004", "U+2005",
      "U+2006", "U+2007", "U+2008", "U+2009", "U+200A", "U+2028", "U+2029",
      "U+202F", "U+205F", "U+3000" }

\* unicode.IsSpace: '\t', '\n', '\v', '\f', '\r', ' ', U+0085, U+00A0 and
\* the space characters outside Latin-1
WhiteSpace == {" ", "\t", "\n", VT, "\f", "\r", NEL, NBSP} \cup UnicodeSpaces
IsSpace(c) == c \in WhiteSpace

RECURSIVE TrimLeft(_)
TrimLeft(s) ==
    IF s # <<>> /\ IsSpace(Head(s)) THEN TrimLeft(Tail(s)) ELSE s

RECURSIVE TrimRight(_)
TrimRight(s) ==
    IF s # <<>> /\ IsSpace(s[Len(s)])
    THEN TrimRight(SubSeq(s, 1, Len(s) - 1))
    ELSE s

\* the mutant of TrimSpace: only the line's newline is removed
TrimSpaceNewlineOnly(s) ==
    IF s # <<>> /\ s[Len(s)] = "\n" THEN SubSeq(s, 1, Len(s) - 1) ELSE s

\* strings.TrimSpace
TrimSpace(s) == TrimRight(TrimLeft(s))

\* strings.Index from byte offset i (0-based): first offset of substr, or -1
RECURSIVE IndexFrom(_, _, _)
IndexFrom(s, substr, i) ==
    IF i + Len(substr) > Len(s) THEN -1
    ELSE IF SubSeq(s, i + 1, i + Len(substr)) = substr THEN i
    ELSE IndexFrom(s, substr, i + 1)

\* the mutant of Contains: the pattern must start the string (HasPrefix)
ContainsPrefixOnly(s, substr) ==
    Len(substr) <= Len(s) /\ SubSeq(s, 1, Len(substr)) = substr

\* the mutant of Contains: an empty substr is found nowhere
ContainsNonEmpty(s, substr) == substr # <<>> /\ IndexFrom(s, substr, 0) >= 0

\* strings.Contains: Index(s, substr) >= 0
Contains(s, substr) == IndexFrom(s, substr, 0) >= 0

-----------------------------------------------------------------------------
(* errors: a Go error is nil or carries a message *)

NilErr == [isNil |-> TRUE, msg |-> <<>>]
Err(m) == [isNil |-> FALSE, msg |-> m]

EOFMsg == <<"E", "O", "F">>
ReadFailedMsg == <<"i", "n", "p", "u", "t", "/", "o", "u", "t", "p", "u", "t", " ", "e", "r", "r", "o", "r">>
DeadlineExceeded == <<"c", "o", "n", "t", "e", "x", "t", " ", "d", "e", "a", "d", "l", "i", "n", "e", " ", "e", "x", "c", "e", "e", "d", "e", "d">>
ExitStatus1 == <<"e", "x", "i", "t", " ", "s", "t", "a", "t", "u", "s", " ", "1">>
SignalKilled == <<"s", "i", "g", "n", "a", "l", ":", " ", "k", "i", "l", "l", "e", "d">>

-----------------------------------------------------------------------------
(* package executor *)

ReasonPrefix == <<"C", "o", "m", "m", "a", "n", "d", " ", "c", "o", "n", "t", "a", "i", "n", "s", " ", "d", "a", "n", "g", "e", "r", "o", "u", "s", " ", "p", "a", "t", "t", "e", "r", "n", ":", " ">>
RefusedPrefix == <<"r", "e", "f", "u", "s", "e", "d", " ", "t", "o", " ", "e", "x", "e", "c", "u", "t", "e", " ", "d", "a", "n", "g", "e", "r", "o", "u", "s", " ", "c", "o", "m", "m", "a", "n", "d", ":", " ">>
FailedPrefix == <<"c", "o", "m", "m", "a", "n", "d", " ", "e", "x", "e", "c", "u", "t", "i", "o", "n", " ", "f", "a", "i", "l", "e", "d", ":", " ">>

Safe == [dangerous |-> FALSE, reason |-> <<>>]

\* the loop of IsDangerous from index i of patterns
RECURSIVE IsDangerousFrom(_, _, _)
IsDangerousFrom(commandLower, pats, i) ==
    IF i > Len(pats) THEN Safe
    ELSE IF Contains(commandLower, ToLower(pats[i]))
         THEN [dangerous |-> TRUE, reason |-> ReasonPrefix \o pats[i]]
         ELSE IsDangerousFrom(commandLower, pats, i + 1)

\* the loop run from the last pattern to the first
RECURSIVE IsDangerousDown(_, _, _)
IsDangerousDown(commandLower, pats, i) ==
    IF i < 1 THEN Safe
    ELSE IF Contains(commandLower, ToLower(pats[i]))
         THEN [dangerous |-> TRUE, reason |-> ReasonPrefix \o pats[i]]
         ELSE IsDangerousDown(commandLower, pats, i - 1)

\* the mutant of IsDangerous: the last matching pattern wins
IsDangerousLastMatch(cmd, pats) ==
    IsDangerousDown(ToLower(cmd), pats, Len(pats))

\* executor.IsDangerous(command, patterns) = (dangerous, reason)
IsDangerous(cmd, pats) == IsDangerousFrom(ToLower(cmd), pats, 1)

DefaultShell == "/bin/zsh"

\* the mutant of NewSafeExecutor: the executor keeps no patterns of its own
NewSafeExecutorWithoutPatterns(pats, sh) ==
    [made |-> TRUE,
     dangerousPatterns |-> <<>>,
     shell |-> IF sh = "" THEN DefaultShell ELSE sh]

\* executor.NewSafeExecutor
NewSafeExecutor(pats, sh) ==
    [made |-> TRUE,
     dangerousPatterns |-> pats,
     shell |-> IF sh = "" THEN DefaultShell ELSE sh]

NoExecutor == [made |-> FALSE, dangerousPatterns |-> <<>>, shell |-> ""]

\* the path of a shell as the characters an error message shows
ShellPath(sh) ==
    IF sh = "/bin/bash" THEN <<"/", "b", "i", "n", "/", "b", "a", "s", "h">>
    ELSE <<"/", "b", "i", "n", "/", "z", "s", "h">>

\* the error of os.StartProcess for a shell that is not installed
StartError(sh) ==
    <<"f", "o", "r", "k", "/", "e", "x", "e", "c", " ">> \o ShellPath(sh)
    \o <<":", " ", "n", "o", " ", "s", "u", "c", "h", " ", "f", "i", "l", "e", " ", "o", "r", " ", "d", "i", "r", "e", "c", "t", "o", "r", "y">>

\* what cmd.Run meets: the shell cannot be started, or it starts and then
\* writes its combined output and exits (with status 0, or with a failure).
\* kill is what the watcher of ctx did while cmd.Run waited: "none" when it
\* killed nothing (ctx was live when the shell was reaped, or Kill found the
\* process done), "running" when the kill ended the running shell after the
\* output it had written, "exited" when the kill reached the shell that had
\* exited with status 0 and was not yet reaped (after a failing shell such
\* a kill leaves the exit status, the outcome of kill "none")
Subprocesses ==
    { [starts |-> FALSE, output |-> <<>>, fails |-> TRUE, cause |-> ExitStatus1,
       kill |-> "none"] }
    \cup
    { [starts |-> TRUE, output |-> o, fails |-> w[1], cause |-> ExitStatus1,
       kill |-> w[2]] :
        o \in {<<>>, <<"o", "k", "\n">>},
        w \in { <<FALSE, "none">>, <<TRUE, "none">>, <<TRUE, "running">>,
                <<FALSE, "exited">> } }

\* what cmd.Run returns for a started process: the error of Process.Wait
\* first, then the ctx.Err() of a watcher whose kill succeeded
WaitError(run) ==
    IF run.kill = "running" THEN Err(FailedPrefix \o SignalKilled)
    ELSE IF run.fails THEN Err(FailedPrefix \o run.cause)
    ELSE IF run.kill = "exited" THEN Err(FailedPrefix \o DeadlineExceeded)
    ELSE NilErr

\* the mutant of Execute: no second classification, the command is run
ExecuteUnchecked(e, done, cmd, run) ==
    IF done
    THEN [called |-> TRUE, command |-> cmd, spawned |-> FALSE, output |-> <<>>,
          err |-> Err(FailedPrefix \o DeadlineExceeded)]
    ELSE IF ~run.starts
    THEN [called |-> TRUE, command |-> cmd, spawned |-> FALSE, output |-> <<>>,
          err |-> Err(FailedPrefix \o StartError(e.shell))]
    ELSE [called |-> TRUE, command |-> cmd, spawned |-> TRUE, output |-> run.output,
          err |-> WaitError(run)]

\* SafeExecutor.Execute(ctx, command); done: ctx is already done at the
\* call, so exec.Cmd.Start returns ctx.Err() without starting a process
Execute(e, done, cmd, run) ==
    LET v == IsDangerous(cmd, e.dangerousPatterns) IN
    IF v.dangerous
    THEN [called |-> TRUE, command |-> cmd, spawned |-> FALSE, output |-> <<>>,
          err |-> Err(RefusedPrefix \o v.reason)]
    ELSE IF done
    THEN [called |-> TRUE, command |-> cmd, spawned |-> FALSE, output |-> <<>>,
          err |-> Err(FailedPrefix \o DeadlineExceeded)]
    ELSE IF ~run.starts
    THEN [called |-> TRUE, command |-> cmd, spawned |-> FALSE, output |-> <<>>,
          err |-> Err(FailedPrefix \o StartError(e.shell))]
    ELSE [called |-> TRUE, command |-> cmd, spawned |-> TRUE, output |-> run.output,
          err |-> WaitError(run)]

NotExecuted ==
    [called |-> FALSE, command |-> <<>>, spawned |-> FALSE, output |-> <<>>,
     err |-> NilErr]

-----------------------------------------------------------------------------
(* package ui *)

\* index (1-based) of the first delim in s from position i, 0 if none
RECURSIVE IndexByte(_, _, _)
IndexByte(s, delim, i) ==
    IF i > Len(s) THEN 0
    ELSE IF s[i] = delim THEN i
    ELSE IndexByte(s, delim, i + 1)

\* the mutant of ReadString: the line is returned but stays in the buffer
ReadStringPeek(stream, end) ==
    LET i == IndexByte(stream, "\n", 1) IN
    IF i > 0
    THEN [data |-> SubSeq(stream, 1, i), err |-> NilErr, rest |-> stream]
    ELSE [data |-> stream, err |-> Err(end), rest |-> <<>>]

\* the mutant of ReadString: text cut short by the end of the input is a line
ReadStringAcceptsFragment(stream, end) ==
    LET i == IndexByte(stream, "\n", 1) IN
    IF i > 0
    THEN [data |-> SubSeq(stream, 1, i), err |-> NilErr,
          rest |-> SubSeq(stream, i + 1, Len(stream))]
    ELSE IF stream # <<>>
    THEN [data |-> stream, err |-> NilErr, rest |-> <<>>]
    ELSE [data |-> stream, err |-> Err(end), rest |-> <<>>]

\* bufio.Reader.ReadString('\n') on the display's reader: the data up to and
\* including the first newline, or all remaining data and the stream's error
ReadString(stream, end) ==
    LET i == IndexByte(stream, "\n", 1) IN
    IF i > 0
    THEN [data |-> SubSeq(stream, 1, i), err |-> NilErr,
          rest |-> SubSeq(stream, i + 1, Len(stream))]
    ELSE [data |-> stream, err |-> Err(end), rest |-> <<>>]


\* a line written to stdout or stderr: the format string and its argument
Line(fd, fmt, arg) == [fd |-> fd, fmt |-> fmt, arg |-> arg]

Yes == <<"y", "e", "s">>
Y == <<"y">>

\* the mutant of ConfirmExecution: a failed read counts as the default answer
ConfirmExecutionDefaultOnError(r) ==
    LET input == TrimSpace(ToLower(r.data)) IN
    [called |-> TRUE, ok |-> input = <<>> \/ input = Y \/ input = Yes,
     err |-> NilErr, line |-> r.data]

\* Display.ConfirmExecution after its prompt, r being what ReadString returned
ConfirmExecution(r) ==
    IF ~r.err.isNil
    THEN [called |-> TRUE, ok |-> FALSE, err |-> r.err, line |-> r.data]
    ELSE LET input == TrimSpace(ToLower(r.data)) IN
         [called |-> TRUE, ok |-> input = <<>> \/ input = Y \/ input = Yes,
          err |-> NilErr, line |-> r.data]

\* the mutant of ShowDangerWarning: the answers of the standard prompt
ShowDangerWarningLenient(r) == ConfirmExecution(r)

\* the mutant of ShowDangerWarning: a failed read is returned as a plain "no"
ShowDangerWarningSwallowsError(r) ==
    IF ~r.err.isNil
    THEN [called |-> TRUE, ok |-> FALSE, err |-> NilErr, line |-> r.data]
    ELSE LET input == TrimSpace(ToLower(r.data)) IN
         [called |-> TRUE, ok |-> input = Yes, err |-> NilErr, line |-> r.data]

\* Display.ShowDangerWarning after its prompt, r being what ReadString returned
ShowDangerWarning(r) ==
    IF ~r.err.isNil
    THEN [called |-> TRUE, ok |-> FALSE, err |-> r.err, line |-> r.data]
    ELSE LET input == TrimSpace(ToLower(r.data)) IN
         [called |-> TRUE, ok |-> input = Yes, err |-> NilErr, line |-> r.data]

NotAsked == [called |-> FALSE, ok |-> FALSE, err |-> NilErr, line |-> <<>>]

\* what ShowDangerWarning prints before it reads (the banner's leading
\* newline and warning sign are left out of the format string)
DangerWarningLines(reason) ==
    << Line("stdout", "WARNING: Dangerous command detected!\n", <<>>),
       Line("stdout", "Reason: %s\n", reason),
       Line("stdout", "Are you SURE you want to execute this? [yes/no]: ", <<>>) >>

ConfirmPromptLine == Line("stdout", "Execute? [Y/n]: ", <<>>)
CancelledLine == Line("stdout", "Command execution cancelled.\n", <<>>)

-----------------------------------------------------------------------------
(* package llm: parseCommandFromResponse and the clients' use of it *)

\* strings.HasPrefix
HasPrefix(s, prefix) ==
    Len(prefix) <= Len(s) /\ SubSeq(s, 1, Len(prefix)) = prefix

\* strings.Split(s, "\n"): the pieces between the newlines, one more than
\* there are newlines
RECURSIVE SplitLines(_)
SplitLines(s) ==
    LET i == IndexByte(s, "\n", 1) IN
    IF i = 0 THEN << s >>
    ELSE << SubSeq(s, 1, i - 1) >> \o SplitLines(SubSeq(s, i + 1, Len(s)))

\* strings.Join(parts, "\n")
RECURSIVE JoinLines(_)
JoinLines(parts) ==
    IF parts = <<>> THEN <<>>
    ELSE IF Len(parts) = 1 THEN parts[1]
    ELSE parts[1] \o <<"\n">> \o JoinLines(Tail(parts))

\* the backtick character U+0060, which a TLA+ string cannot hold
Backtick == "BACKTICK"

\* strings.Trim(s, backtick): every leading and trailing backtick removed
RECURSIVE TrimBackticks(_)
TrimBackticks(s) ==
    IF s = <<>> THEN s
    ELSE IF s[1] = Backtick THEN TrimBackticks(Tail(s))
    ELSE IF s[Len(s)] = Backtick THEN TrimBackticks(SubSeq(s, 1, Len(s) - 1))
    ELSE s

Fence == <<Backtick, Backtick, Backtick>>
EmptyResponseMsg == <<"r", "e", "c", "e", "i", "v", "e", "d", " ", "e", "m", "p", "t", "y", " ", "r", "e", "s", "p", "o", "n", "s", "e", " ", "f", "r", "o", "m", " ", "L", "L", "M">>
ParseFailedPrefix == <<"f", "a", "i", "l", "e", "d", " ", "t", "o", " ", "p", "a", "r", "s", "e", " ", "c", "o", "m", "m", "a", "n", "d", ":", " ">>

\* the body of a fenced block: without its first and last line, if it has
\* more than two lines
Unfenced(r) ==
    IF HasPrefix(r, Fence)
    THEN LET lines == SplitLines(r) IN
         IF Len(lines) > 2
         THEN TrimSpace(JoinLines(SubSeq(lines, 2, Len(lines) - 1)))
         ELSE r
    ELSE r

\* the mutant of parseCommandFromResponse: no test for an empty result
parseCommandFromResponseUnchecked(resp) ==
    [cmd |-> TrimSpace(TrimBackticks(Unfenced(TrimSpace(resp)))), err |-> NilErr]

\* parseCommandFromResponse(response) = (command, err)
parseCommandFromResponse(resp) ==
    LET r == TrimSpace(TrimBackticks(Unfenced(TrimSpace(resp)))) IN
    IF r = <<>> THEN [cmd |-> <<>>, err |-> Err(EmptyResponseMsg)]
    ELSE [cmd |-> r, err |-> NilErr]

\* what AnthropicClient.GenerateCommand and OllamaClient.GenerateCommand
\* return once the provider has answered with resp
GenerateFromResponse(resp) ==
    LET p == parseCommandFromResponse(resp) IN
    IF ~p.err.isNil
    THEN [cmd |-> <<>>, err |-> Err(ParseFailedPrefix \o p.err.msg)]
    ELSE [cmd |-> p.cmd, err |-> NilErr]

NotParsed == [called |-> FALSE, cmd |-> <<>>, err |-> NilErr]

-----------------------------------------------------------------------------
(* package context: DefaultCollector *)

\* a []string: nil, or a slice with its items
NilSlice == [isNil |-> TRUE, items |-> <<>>]
Slice(items) == [isNil |-> FALSE, items |-> items]

\* append(files, line)
AppendTo(files, line) == Slice(Append(files.items, line))

\* the loop of getFileList over lines from index i, files collected so far
RECURSIVE FilterFrom(_, _, _, _)
FilterFrom(lines, i, files, limit) ==
    IF i > Len(lines) THEN files
    ELSE LET line == TrimSpace(lines[i]) IN
         IF line = <<>> \/ HasPrefix(line, <<".">>)
         THEN FilterFrom(lines, i + 1, files, limit)
         ELSE LET more == AppendTo(files, line) IN
              IF Len(more.items) >= limit THEN more
              ELSE FilterFrom(lines, i + 1, more, limit)

\* DefaultCollector.getFileList() = (files, err) for what `ls -1` did
getFileList(limit, output, fails) ==
    IF fails
    THEN [files |-> Slice(<<>>), errIsNil |-> FALSE]
    ELSE [files |-> FilterFrom(SplitLines(TrimSpace(output)), 1, NilSlice, limit),
          errIsNil |-> TRUE]

\* DefaultCollector.Collect() = (ctx, err), of ctx its Files
Collect(limit, output, fails, wdFails) ==
    IF wdFails
    THEN [ok |-> FALSE, files |-> NilSlice]
    ELSE [ok |-> TRUE, files |-> getFileList(limit, output, fails).files]

NotListed == [called |-> FALSE, files |-> NilSlice, errIsNil |-> TRUE]
NotCollected == [called |-> FALSE, ok |-> FALSE, files |-> NilSlice]

-----------------------------------------------------------------------------
(* inputs *)

\* the complete lines the operator may type; the last is "yes" after a
\* no-break space and before a vertical tab, ended by CR LF
TypedLines ==
    { <<"\n">>,
      <<"y", "\n">>,
      <<"Y", "\n">>,
      <<"y", "e", "s", "\n">>,
      <<" ", "Y", "E", "S", " ", "\n">>,
      <<"n", "\n">>,
      <<" ", "\t", "\n">>,
      <<NBSP, "y", "e", "s", VT, "\r", "\n">> }

\* what the operator may have typed when the input closes before the newline
TypedFragments == { <<"y", "e", "s">>, <<"y">> }

\* what the operator may type as one line
Typed == TypedLines \cup TypedFragments

\* all streams of at most n complete lines
RECURSIVE LineStreams(_)
LineStreams(n) ==
    IF n = 0 THEN { <<>> }
    ELSE LineStreams(n - 1) \cup
         { s \o t : s \in LineStreams(n - 1), t \in TypedLines }

\* all streams of at most n typed lines, the last of them possibly cut
\* short by the end of the input
Streams(n) ==
    IF n = 0 THEN { <<>> }
    ELSE LineStreams(n) \cup
         { s \o t : s \in LineStreams(n - 1), t \in TypedFragments }

\* the error a reader returns at the end of its data: io.EOF, or a failed read
StreamEnds == { EOFMsg, ReadFailedMsg }

Providers == { "anthropic", "ollama", "openai" }
Shells == { "/bin/zsh", "/bin/bash" }

\* what the model provider may answer to main: a fenced command, a command
\* in backticks, a command in white space, nothing, and an empty fence
MainResponses ==
    { Fence \o <<"\n", "l", "s", "\n">> \o Fence,
      <<Backtick, "r", "m", " ", "-", "r", "f", " ", "/", "x", Backtick>>,
      <<" ", "R", "M", " ", "-", "R", "F", " ", "/", "x", "\n">>,
      <<>>,
      Fence \o <<" ">> \o Fence }

\* the commands GenerateCommand returns to main for these answers
MainCommands ==
    { GenerateFromResponse(r).cmd :
        r \in { x \in MainResponses : GenerateFromResponse(x).err.isNil } }

\* pattern lists main may load from the configuration
MainPatternLists ==
    { <<>>,
      << <<"r", "m", " ", "-", "r", "f">> >>,
      << <<"m", "k", "f", "s">>, <<"-", "R", "f">>, <<"r", "m", " ", "-", "r", "f">> >> }

\* characters of the commands handed to the classifier directly
CmdAlphabet == { "r", "R", "*", KelvinSign }

\* all strings over CmdAlphabet of length at most n
RECURSIVE StringsUpTo(_)
StringsUpTo(n) ==
    IF n = 0 THEN { <<>> }
    ELSE StringsUpTo(n - 1) \cup
         { Append(s, c) : s \in StringsUpTo(n - 1), c \in CmdAlphabet }

UnitCommands == StringsUpTo(MaxCmdLen)

\* patterns offered to the classifier directly: the empty pattern, a
\* regex-shaped pattern in upper case, and a pattern whose letter is the
\* lower case of a letter outside ASCII
PatternPool ==
    { <<>>, <<"R", "*">>, <<"k">> }

\* all lists of at most n patterns of the pool (duplicates allowed)
RECURSIVE ListsUpTo(_)
ListsUpTo(n) ==
    IF n = 0 THEN { <<>> }
    ELSE ListsUpTo(n - 1) \cup
         { Append(l, p) : l \in ListsUpTo(n - 1), p \in PatternPool }

UnitPatternLists == ListsUpTo(MaxPatterns)

\* the pieces responses are made of: a fence, a backtick, a blank, a
\* no-break space, a newline and a word
Tokens == { Fence, <<Backtick>>, <<" ">>, <<NBSP>>, <<"\n">>, <<"a">> }

\* all responses of at most n pieces
RECURSIVE ResponsesUpTo(_)
ResponsesUpTo(n) ==
    IF n = 0 THEN { <<>> }
    ELSE ResponsesUpTo(n - 1) \cup
         { r \o t : r \in ResponsesUpTo(n - 1), t \in Tokens }

Responses == ResponsesUpTo(MaxTokens)

\* the lines `ls -1` may print: names, a hidden name, a blank line, a name
\* after a blank, a name between a vertical tab and a no-break space
Entries == { <<"a">>, <<"b">>, <<".", "h">>, <<>>, <<" ", "c">>, <<VT, "d", NBSP>> }

\* all outputs of at most n lines, each ended by a newline
RECURSIVE ListingsUpTo(_)
ListingsUpTo(n) ==
    IF n = 0 THEN { <<>> }
    ELSE ListingsUpTo(n - 1) \cup
         { l \o e \o <<"\n">> : l \in ListingsUpTo(n - 1), e \in Entries }

Listings == ListingsUpTo(MaxEntries)
Limits == 0..MaxLimit

-----------------------------------------------------------------------------
(* func main *)

\* exitCode while the process runs
NotExited == -1

\* the mutant of Cancels: only a failed read cancels
CancelsOnErrorOnly(ret) == ~ret.err.isNil

\* main's test after each prompt: err != nil || !confirmed
Cancels(ret) == ~ret.err.isNil \/ ~ret.ok

Exit(code) == pc' = "exited" /\ exitCode' = code

\* the mutant of CancelLines: a failed read is reported before the notice
CancelLinesWithCause(ret) ==
    IF ret.err.isNil THEN << CancelledLine >>
    ELSE << Line("stderr", "Error: %v\n", ret.err.msg), CancelledLine >>

\* what main prints when a prompt did not confirm: the notice, and nothing
\* about err
CancelLines(ret) == << CancelledLine >>

\* the mutant of CancelStatus: a failed read is a failure of the process
CancelStatusFailsOnError(ret) == IF ret.err.isNil THEN 0 ELSE 1

\* the status main exits with when a prompt did not confirm: os.Exit(0)
CancelStatus(ret) == 0

\* packages llm and context are not called directly
LlmIdle ==
    /\ response = <<>>
    /\ parsed = NotParsed
    /\ generated = NotParsed

CollectIdle ==
    /\ lsOutput = <<>>
    /\ lsFails = FALSE
    /\ getwdFails = FALSE
    /\ maxFiles = 0
    /\ fileList = NotListed
    /\ sysCtx = NotCollected

\* package executor and main are not running
MainIdle ==
    /\ stdin = <<>>
    /\ stdin0 = <<>>
    /\ stdinEnd = EOFMsg
    /\ patterns = <<>>
    /\ provider = ""
    /\ shell = ""
    /\ command = <<>>
    /\ ctxDone = FALSE
    /\ expiredAtPrompt = FALSE
    /\ verdict = [called |-> FALSE, dangerous |-> FALSE, reason |-> <<>>]
    /\ strictRet = NotAsked
    /\ confirmRet = NotAsked
    /\ exec = NoExecutor
    /\ execRet = NotExecuted
    /\ out = <<>>
    /\ events = <<>>
    /\ reads = 0
    /\ exitCode = NotExited

\* the process at the start of main, before it has read anything
Started ==
    /\ pc = "args"
    /\ LlmIdle
    /\ CollectIdle
    /\ stdin0 = stdin
    /\ stdinEnd \in StreamEnds
    /\ patterns = <<>>
    /\ provider = ""
    /\ shell = ""
    /\ command = <<>>
    /\ ctxDone = FALSE
    /\ expiredAtPrompt = FALSE
    /\ verdict = [called |-> FALSE, dangerous |-> FALSE, reason |-> <<>>]
    /\ strictRet = NotAsked
    /\ confirmRet = NotAsked
    /\ exec = NoExecutor
    /\ execRet = NotExecuted
    /\ out = <<>>
    /\ events = <<>>
    /\ reads = 0
    /\ exitCode = NotExited

Init ==
    /\ stdin \in Streams(MaxLines)
    /\ Started

\* showUsage(): one line for each of its Println calls
UsageLines ==
    << Line("stdout", "Usage: zchat <natural language query>\n", <<>>),
       Line("stdout", "\n", <<>>),
       Line("stdout", "Example:\n", <<>>),
       Line("stdout", "  zchat list the number of lines in analysis_data.csv\n", <<>>),
       Line("stdout", "  zchat find all python files modified in the last week\n", <<>>),
       Line("stdout", "  zchat show disk usage sorted by size\n", <<>>),
       Line("stdout", "\n", <<>>),
       Line("stdout", "Configuration:\n", <<>>),
       Line("stdout", "  Default provider: Ollama (local)\n", <<>>),
       Line("stdout", "  Default model: qwen2.5-coder:7b\n", <<>>),
       Line("stdout", "\n", <<>>),
       Line("stdout", "  To use Anthropic instead:\n", <<>>),
       Line("stdout", "    Set ANTHROPIC_API_KEY and ZCHAT_PROVIDER=anthropic\n", <<>>),
       Line("stdout", "\n", <<>>),
       Line("stdout", "  Or create ~/.config/zchat/config.yaml with:\n", <<>>),
       Line("stdout", "    provider: ollama  # or anthropic\n", <<>>),
       Line("stdout", "    model: qwen2.5-coder:7b\n", <<>>),
       Line("stdout", "    ollama_url: http://localhost:11434\n", <<>>) >>

\* len(os.Args) < 2: usage and exit 1
CheckArgs ==
    /\ pc = "args"
    /\ \E hasQuery \in BOOLEAN :
          IF hasQuery
          THEN /\ pc' = "config"
               /\ UNCHANGED <<out, exitCode>>
          ELSE /\ out' = out \o UsageLines
               /\ Exit(1)
    /\ UNCHANGED <<llmVars, collectVars, stdin, stdin0, stdinEnd, expiredAtPrompt, patterns, provider, shell, command,
                   ctxDone, verdict, strictRet, confirmRet, exec, execRet,
                   events, reads>>

\* Config.Validate: the provider is anthropic or ollama, and anthropic has
\* an API key; TRUE when it returns nil
Validate(pr, hasKey) ==
    IF pr # "anthropic" /\ pr # "ollama" THEN FALSE
    ELSE IF pr = "anthropic" THEN hasKey
    ELSE TRUE

\* config.Load(): the file does not parse, or the configuration of file,
\* defaults and environment is validated; main exits on its error
LoadConfig ==
    /\ pc = "config"
    /\ \/ /\ out' = Append(out, Line("stderr", "Error loading config: %v\n", <<>>))
          /\ Exit(1)
          /\ UNCHANGED <<patterns, provider>>
       \/ \E pr \in Providers, hasKey \in BOOLEAN, pats \in MainPatternLists :
             IF Validate(pr, hasKey)
             THEN /\ provider' = pr
                  /\ patterns' = pats
                  /\ pc' = "collect"
                  /\ UNCHANGED <<out, exitCode>>
             ELSE /\ out' = Append(out, Line("stderr", "Error loading config: %v\n", <<>>))
                  /\ Exit(1)
                  /\ UNCHANGED <<patterns, provider>>
    /\ UNCHANGED <<llmVars, collectVars, stdin, stdin0, stdinEnd, expiredAtPrompt, shell, command, ctxDone, verdict,
                   strictRet, confirmRet, exec, execRet, events, reads>>

\* collector.Collect(), then context.WithTimeout starts the 30 s deadline
CollectContext ==
    /\ pc = "collect"
    /\ \/ /\ out' = Append(out, Line("stderr", "Error collecting context: %v\n", <<>>))
          /\ Exit(1)
          /\ UNCHANGED shell
       \/ \E sh \in Shells :
             /\ shell' = sh
             /\ pc' = "provider"
             /\ UNCHANGED <<out, exitCode>>
    /\ UNCHANGED <<llmVars, collectVars, stdin, stdin0, stdinEnd, expiredAtPrompt, patterns, provider, command, ctxDone,
                   verdict, strictRet, confirmRet, exec, execRet, events, reads>>

\* the mutant of DeadlineExpires: the deadline ends a prompt that is waiting
DeadlineCancelsPrompt ==
    /\ pc \in {"provider", "generate", "display", "check", "strict",
               "strictRead", "confirm", "confirmRead", "execute", "running"}
    /\ ~ctxDone
    /\ ctxDone' = TRUE
    /\ expiredAtPrompt' = (pc \in {"strictRead", "confirmRead"})
    /\ IF pc \in {"strictRead", "confirmRead"}
       THEN /\ out' = Append(out, CancelledLine)
            /\ pc' = "exited"
            /\ exitCode' = 0
       ELSE UNCHANGED <<pc, out, exitCode>>
    /\ UNCHANGED <<llmVars, collectVars, stdin, stdin0, stdinEnd, patterns, provider, shell,
                   command, verdict, strictRet, confirmRet, exec, execRet,
                   events, reads>>

\* the 30 s deadline of ctx passes while the process is still running
DeadlineExpires ==
    /\ pc \in {"provider", "generate", "display", "check", "strict",
               "strictRead", "confirm", "confirmRead", "execute", "running"}
    /\ ~ctxDone
    /\ ctxDone' = TRUE
    /\ expiredAtPrompt' = (pc \in {"strictRead", "confirmRead"})
    /\ UNCHANGED <<llmVars, collectVars, pc, stdin, stdin0, stdinEnd, patterns, provider, shell,
                   command, verdict, strictRet, confirmRet, exec, execRet, out,
                   events, reads, exitCode>>

\* switch cfg.Provider; config.Load lets only anthropic and ollama through,
\* so the default branch is never taken
SelectProvider ==
    /\ pc = "provider"
    /\ IF provider \in {"anthropic", "ollama"}
       THEN /\ pc' = "generate"
            /\ UNCHANGED <<out, exitCode>>
       ELSE /\ out' = Append(out, Line("stderr", "Unknown provider: %s\n", <<>>))
            /\ Exit(1)
    /\ UNCHANGED <<llmVars, collectVars, stdin, stdin0, stdinEnd, expiredAtPrompt, patterns, provider, shell, command,
                   ctxDone, verdict, strictRet, confirmRet, exec, execRet,
                   events, reads>>

\* llmClient.GenerateCommand(ctx, query, sysCtx): an error of the request
\* (always, once ctx is done), or what the client makes of the answer
GenerateCommand ==
    /\ pc = "generate"
    /\ \/ /\ out' = Append(out, Line("stderr", "Error generating command: %v\n", <<>>))
          /\ Exit(1)
          /\ UNCHANGED <<command, events>>
       \/ /\ ~ctxDone
          /\ \E r \in MainResponses :
                \E g \in { GenerateFromResponse(r) } :
                IF g.err.isNil
                THEN /\ command' = g.cmd
                     /\ events' = Append(events, "generate")
                     /\ pc' = "display"
                     /\ UNCHANGED <<out, exitCode>>
                ELSE /\ out' = Append(out, Line("stderr", "Error generating command: %v\n", <<>>))
                     /\ Exit(1)
                     /\ UNCHANGED <<command, events>>
    /\ UNCHANGED <<llmVars, collectVars, stdin, stdin0, stdinEnd, expiredAtPrompt, patterns, provider, shell, ctxDone,
                   verdict, strictRet, confirmRet, exec, execRet, reads>>

\* ui.NewDisplay() and display.ShowCommand(command)
DisplayCommand ==
    /\ pc = "display"
    /\ out' = Append(out, Line("stdout", "Command: %s\n", command))
    /\ events' = Append(events, "display")
    /\ pc' = "check"
    /\ UNCHANGED <<llmVars, collectVars, stdin, stdin0, stdinEnd, expiredAtPrompt, patterns, provider, shell, command,
                   ctxDone, verdict, strictRet, confirmRet, exec, execRet,
                   reads, exitCode>>

\* the mutant of NextAfterCheck: the strict prompt is skipped
NextAfterCheckSkipsStrict(v) == "confirm"

\* the mutant of NextAfterCheck: every command gets the strict prompt
NextAfterCheckAlwaysStrict(v) == "strict"

\* where main goes after executor.IsDangerous
NextAfterCheck(v) == IF v.dangerous THEN "strict" ELSE "confirm"

\* isDangerous, reason := executor.IsDangerous(command, cfg.DangerousPatterns)
SafetyCheck ==
    /\ pc = "check"
    /\ \E v \in { IsDangerous(command, patterns) } :
          /\ verdict' = [called |-> TRUE, dangerous |-> v.dangerous, reason |-> v.reason]
          /\ pc' = NextAfterCheck(v)
    /\ events' = Append(events, "classify")
    /\ UNCHANGED <<llmVars, collectVars, stdin, stdin0, stdinEnd, expiredAtPrompt, patterns, provider, shell, command,
                   ctxDone, strictRet, confirmRet, exec, execRet, out, reads,
                   exitCode>>

\* display.ShowDangerWarning(reason) up to its read: banner, reason, prompt
StrictPrompt ==
    /\ pc = "strict"
    /\ out' = out \o DangerWarningLines(verdict.reason)
    /\ events' = Append(events, "strictPrompt")
    /\ pc' = "strictRead"
    /\ UNCHANGED <<llmVars, collectVars, stdin, stdin0, stdinEnd, expiredAtPrompt, patterns, provider, shell, command,
                   ctxDone, verdict, strictRet, confirmRet, exec, execRet,
                   reads, exitCode>>

\* the read of ShowDangerWarning returns; main cancels or goes on
StrictRead ==
    /\ pc = "strictRead"
    /\ \E r \in { ReadString(stdin, stdinEnd) } : \E ret \in { ShowDangerWarning(r) } :
          /\ stdin' = r.rest
          /\ strictRet' = ret
          /\ IF Cancels(ret)
             THEN /\ out' = out \o CancelLines(ret)
                  /\ events' = events \o <<"strictRead", "cancelled">>
                  /\ Exit(CancelStatus(ret))
             ELSE /\ pc' = "confirm"
                  /\ events' = Append(events, "strictRead")
                  /\ UNCHANGED <<out, exitCode>>
    /\ reads' = reads + 1
    /\ UNCHANGED <<llmVars, collectVars, stdin0, stdinEnd, expiredAtPrompt, patterns, provider, shell, command,
                   ctxDone, verdict, confirmRet, exec, execRet>>

\* display.ConfirmExecution() up to its read: the prompt
ConfirmPrompt ==
    /\ pc = "confirm"
    /\ out' = Append(out, ConfirmPromptLine)
    /\ events' = Append(events, "confirmPrompt")
    /\ pc' = "confirmRead"
    /\ UNCHANGED <<llmVars, collectVars, stdin, stdin0, stdinEnd, expiredAtPrompt, patterns, provider, shell, command,
                   ctxDone, verdict, strictRet, confirmRet, exec, execRet,
                   reads, exitCode>>

\* the mutant of ConfirmRead: a failed read is tried again
ConfirmReadRetries ==
    /\ pc = "confirmRead"
    /\ \E r \in { ReadString(stdin, stdinEnd) } : \E ret \in { ConfirmExecution(r) } :
          /\ stdin' = r.rest
          /\ confirmRet' = ret
          /\ IF ~ret.err.isNil
             THEN UNCHANGED <<pc, out, events, exitCode>>
             ELSE IF Cancels(ret)
             THEN /\ out' = out \o CancelLines(ret)
                  /\ events' = events \o <<"confirmRead", "cancelled">>
                  /\ Exit(CancelStatus(ret))
             ELSE /\ pc' = "execute"
                  /\ events' = Append(events, "confirmRead")
                  /\ UNCHANGED <<out, exitCode>>
    /\ reads' = reads + 1
    /\ UNCHANGED <<llmVars, collectVars, stdin0, stdinEnd, expiredAtPrompt, patterns, provider, shell, command,
                   ctxDone, verdict, strictRet, exec, execRet>>

\* the read of ConfirmExecution returns; main cancels or goes on
ConfirmRead ==
    /\ pc = "confirmRead"
    /\ \E r \in { ReadString(stdin, stdinEnd) } : \E ret \in { ConfirmExecution(r) } :
          /\ stdin' = r.rest
          /\ confirmRet' = ret
          /\ IF Cancels(ret)
             THEN /\ out' = out \o CancelLines(ret)
                  /\ events' = events \o <<"confirmRead", "cancelled">>
                  /\ Exit(CancelStatus(ret))
             ELSE /\ pc' = "execute"
                  /\ events' = Append(events, "confirmRead")
                  /\ UNCHANGED <<out, exitCode>>
    /\ reads' = reads + 1
    /\ UNCHANGED <<llmVars, collectVars, stdin0, stdinEnd, expiredAtPrompt, patterns, provider, shell, command,
                   ctxDone, verdict, strictRet, exec, execRet>>

\* the mutant of AfterExecuteLines: a failed command's output is dropped
AfterExecuteLinesErrorOnly(res) ==
    IF ~res.err.isNil
    THEN << Line("stderr", "Error: %v\n", res.err.msg) >>
    ELSE << Line("stdout", "%s", res.output) >>

\* what main prints after Execute returned
AfterExecuteLines(res) ==
    IF ~res.err.isNil
    THEN << Line("stderr", "Error: %v\n", res.err.msg) >>
         \o (IF res.output # <<>> THEN << Line("stdout", "%s\n", res.output) >> ELSE <<>>)
    ELSE << Line("stdout", "%s", res.output) >>

\* executor.NewSafeExecutor and exec.Execute(ctx, command) up to cmd.Run's
\* wait: Execute returns at once when it refuses the command, when ctx is
\* done or when the shell cannot be started, and main reports and exits;
\* otherwise the shell runs
ExecuteStart ==
    /\ pc = "execute"
    /\ \E e \in { NewSafeExecutor(patterns, shell) } :
       \E run \in { r \in Subprocesses : ~r.starts \/ (r.output = <<>> /\ ~r.fails) } :
          \E res \in { Execute(e, ctxDone, command, run) } :
             /\ exec' = e
             /\ IF res.spawned
                THEN /\ pc' = "running"
                     /\ UNCHANGED <<execRet, out, exitCode>>
                ELSE /\ execRet' = res
                     /\ out' = out \o AfterExecuteLines(res)
                     /\ Exit(IF res.err.isNil THEN 0 ELSE 1)
    /\ events' = Append(events, "execute")
    /\ UNCHANGED <<llmVars, collectVars, stdin, stdin0, stdinEnd, expiredAtPrompt, patterns, provider, shell, command,
                   ctxDone, verdict, strictRet, confirmRet, reads>>

\* cmd.Run returns: the shell has exited and its pipe is closed, ctx live
\* or done by then; or ctx became done while cmd.Run waited and the watcher
\* killed the shell, running or exited; Execute returns, main reports and
\* exits
ExecuteWait ==
    /\ pc = "running"
    /\ \E run \in { r \in Subprocesses : r.starts /\ (r.kill # "none" => ctxDone) } :
          \E res \in { Execute(exec, FALSE, command, run) } :
             /\ execRet' = res
             /\ out' = out \o AfterExecuteLines(res)
             /\ Exit(IF res.err.isNil THEN 0 ELSE 1)
    /\ UNCHANGED <<llmVars, collectVars, stdin, stdin0, stdinEnd, expiredAtPrompt, patterns, provider, shell, command,
                   ctxDone, verdict, strictRet, confirmRet, exec, events, reads>>

Next ==
    \/ CheckArgs
    \/ LoadConfig
    \/ CollectContext
    \/ DeadlineExpires
    \/ SelectProvider
    \/ GenerateCommand
    \/ DisplayCommand
    \/ SafetyCheck
    \/ StrictPrompt
    \/ StrictRead
    \/ ConfirmPrompt
    \/ ConfirmRead
    \/ ExecuteStart
    \/ ExecuteWait

Spec == Init /\ [][Next]_vars

\* the streams of at most n lines of a few kinds: yes, no, Enter, and a cut
\* off "y" at the end
RECURSIVE FewLineStreams(_)
FewLineStreams(n) ==
    IF n = 0 THEN { <<>> }
    ELSE FewLineStreams(n - 1) \cup
         { s \o t : s \in FewLineStreams(n - 1),
                    t \in { <<"y", "e", "s", "\n">>, <<"n", "\n">>, <<"\n">> } }

FewStreams ==
    FewLineStreams(MaxLines) \cup { s \o <<"y">> : s \in FewLineStreams(MaxLines - 1) }

InitLive ==
    /\ stdin \in FewStreams
    /\ Started

\* the steps of the process itself: every call it makes returns
Run ==
    \/ CheckArgs
    \/ LoadConfig
    \/ CollectContext
    \/ SelectProvider
    \/ GenerateCommand
    \/ DisplayCommand
    \/ SafetyCheck
    \/ StrictPrompt
    \/ StrictRead
    \/ ConfirmPrompt
    \/ ConfirmRead
    \/ ExecuteStart
    \/ ExecuteWait

\* a run in which every blocking read, the generation and the subprocess
\* eventually return
SpecLive == InitLive /\ [][Next]_vars /\ WF_vars(Run)

-----------------------------------------------------------------------------
(* package executor called directly, as its tests call it *)

InitUnit ==
    /\ pc = "unit"
    /\ LlmIdle
    /\ CollectIdle
    /\ command \in UnitCommands
    /\ patterns \in UnitPatternLists
    /\ stdin = <<>>
    /\ stdin0 = <<>>
    /\ stdinEnd = EOFMsg
    /\ provider = ""
    /\ shell = ""
    /\ ctxDone = FALSE
    /\ expiredAtPrompt = FALSE
    /\ verdict = [called |-> FALSE, dangerous |-> FALSE, reason |-> <<>>]
    /\ strictRet = NotAsked
    /\ confirmRet = NotAsked
    /\ exec = NoExecutor
    /\ execRet = NotExecuted
    /\ out = <<>>
    /\ events = <<>>
    /\ reads = 0
    /\ exitCode = NotExited

\* isDangerous, reason := IsDangerous(cmd, patterns)
CallIsDangerous ==
    /\ pc = "unit"
    /\ \E v \in { IsDangerous(command, patterns) } :
          verdict' = [called |-> TRUE, dangerous |-> v.dangerous, reason |-> v.reason]
    /\ UNCHANGED <<llmVars, collectVars, pc, stdin, stdin0, stdinEnd, expiredAtPrompt, patterns, provider, shell,
                   command, ctxDone, strictRet, confirmRet, exec, execRet, out,
                   events, reads, exitCode>>

\* exec := NewSafeExecutor(patterns, shell)
CallNewSafeExecutor ==
    /\ pc = "unit"
    /\ \E sh \in {"", "/bin/bash"} :
          /\ shell' = sh
          /\ exec' = NewSafeExecutor(patterns, sh)
    /\ UNCHANGED <<llmVars, collectVars, pc, stdin, stdin0, stdinEnd, expiredAtPrompt, patterns, provider, command,
                   ctxDone, verdict, strictRet, confirmRet, execRet, out,
                   events, reads, exitCode>>

\* output, err := exec.Execute(ctx, command) up to cmd.Run's wait: Execute
\* returns at once when it refuses the command, when ctx is done at the
\* call or when the shell cannot be started; otherwise the shell runs and
\* the caller waits
CallExecute ==
    /\ pc = "unit"
    /\ exec.made
    /\ \E run \in { r \in Subprocesses : ~r.starts \/ (r.output = <<>> /\ ~r.fails /\ r.kill = "none") } :
          \E res \in { Execute(exec, ctxDone, command, run) } :
             IF res.spawned
             THEN /\ pc' = "unitWait"
                  /\ execRet' = NotExecuted
             ELSE /\ execRet' = res
                  /\ UNCHANGED pc
    /\ UNCHANGED <<llmVars, collectVars, stdin, stdin0, stdinEnd, expiredAtPrompt, patterns, provider, shell,
                   command, ctxDone, verdict, strictRet, confirmRet, exec, out, events,
                   reads, exitCode>>

\* cmd.Run returns to Execute, and Execute to its caller: the shell has
\* exited and its pipe is closed, ctx live or done by then; or ctx became
\* done while cmd.Run waited and the watcher killed the shell, running or
\* exited
ExecuteReturns ==
    /\ pc = "unitWait"
    /\ \E run \in { r \in Subprocesses : r.starts /\ (r.kill # "none" => ctxDone) } :
          \E res \in { Execute(exec, FALSE, command, run) } :
             execRet' = res
    /\ pc' = "unit"
    /\ UNCHANGED <<llmVars, collectVars, stdin, stdin0, stdinEnd, expiredAtPrompt, patterns, provider, shell,
                   command, ctxDone, verdict, strictRet, confirmRet, exec, out, events,
                   reads, exitCode>>

\* the timer of the caller's context fires (context.WithTimeout of the
\* test), before a call or while Execute waits in cmd.Run
ContextExpires ==
    /\ pc \in {"unit", "unitWait"}
    /\ ~ctxDone
    /\ ctxDone' = TRUE
    /\ UNCHANGED <<llmVars, collectVars, pc, stdin, stdin0, stdinEnd, expiredAtPrompt, patterns, provider, shell,
                   command, verdict, strictRet, confirmRet, exec, execRet, out, events,
                   reads, exitCode>>

NextUnit ==
    \/ CallIsDangerous
    \/ CallNewSafeExecutor
    \/ CallExecute
    \/ ExecuteReturns
    \/ ContextExpires

SpecUnit == InitUnit /\ [][NextUnit]_vars

-----------------------------------------------------------------------------
(* package llm called directly, as its tests call it *)

InitLlm ==
    /\ pc = "llm"
    /\ MainIdle
    /\ CollectIdle
    /\ response \in Responses
    /\ parsed = NotParsed
    /\ generated = NotParsed

\* command, err := parseCommandFromResponse(response)
CallParse ==
    /\ pc = "llm"
    /\ LET p == parseCommandFromResponse(response) IN
          parsed' = [called |-> TRUE, cmd |-> p.cmd, err |-> p.err]
    /\ UNCHANGED <<mainVars, collectVars, response, generated>>

\* command, err := client.GenerateCommand(...), the provider answering response
CallGenerateCommand ==
    /\ pc = "llm"
    /\ LET g == GenerateFromResponse(response) IN
          generated' = [called |-> TRUE, cmd |-> g.cmd, err |-> g.err]
    /\ UNCHANGED <<mainVars, collectVars, response, parsed>>

NextLlm ==
    \/ CallParse
    \/ CallGenerateCommand

SpecLlm == InitLlm /\ [][NextLlm]_vars

-----------------------------------------------------------------------------
(* package context called directly, as its tests call it *)

InitCollect ==
    /\ pc = "collector"
    /\ MainIdle
    /\ LlmIdle
    /\ lsOutput \in Listings
    /\ lsFails \in BOOLEAN
    /\ getwdFails \in BOOLEAN
    /\ maxFiles \in Limits
    /\ fileList = NotListed
    /\ sysCtx = NotCollected

\* files, err := NewDefaultCollector(maxFiles).getFileList()
CallGetFileList ==
    /\ pc = "collector"
    /\ LET r == getFileList(maxFiles, lsOutput, lsFails) IN
          fileList' = [called |-> TRUE, files |-> r.files, errIsNil |-> r.errIsNil]
    /\ UNCHANGED <<mainVars, llmVars, lsOutput, lsFails, getwdFails, maxFiles, sysCtx>>

\* ctx, err := NewDefaultCollector(maxFiles).Collect()
CallCollect ==
    /\ pc = "collector"
    /\ LET r == Collect(maxFiles, lsOutput, lsFails, getwdFails) IN
          sysCtx' = [called |-> TRUE, ok |-> r.ok, files |-> r.files]
    /\ UNCHANGED <<mainVars, llmVars, lsOutput, lsFails, getwdFails, maxFiles, fileList>>

NextCollect ==
    \/ CallGetFileList
    \/ CallCollect

SpecCollect == InitCollect /\ [][NextCollect]_vars

-----------------------------------------------------------------------------
(* vocabulary of the properties, stated without the operators of the model *)

\* pattern p, case folded, is a contiguous run of command c, case folded
OccursIn(p, c) ==
    \E i \in 0..(Len(c) - Len(p)) :
        \A j \in 1..Len(p) : ToLowerChar(c[i + j]) = ToLowerChar(p[j])

\* line is a newline-terminated line
IsFullLine(line) == line # <<>> /\ line[Len(line)] = "\n"

\* line is word, in any letter case, surrounded by white space only
NormalisesTo(line, word) ==
    \E a \in 1..(Len(line) + 1) :
        LET b == a + Len(word) - 1 IN
        /\ b <= Len(line)
        /\ \A i \in 1..Len(line) :
              IF a <= i /\ i <= b
              THEN ToLowerChar(line[i]) = word[i - a + 1]
              ELSE IsSpace(line[i])

\* s begins with t
StartsWith(s, t) == Len(t) <= Len(s) /\ SubSeq(s, 1, Len(t)) = t

\* what is left of s after its first n characters
Drop(s, n) == SubSeq(s, n + 1, Len(s))

HasEvent(e) == \E i \in 1..Len(events) : events[i] = e
CountEvent(e) == Cardinality({ i \in 1..Len(events) : events[i] = e })
Printed(l) == \E i \in 1..Len(out) : out[i] = l

\* the strict prompt was answered with a full line that normalises to "yes"
StrictAnsweredYes ==
    /\ strictRet.called
    /\ strictRet.err.isNil
    /\ IsFullLine(strictRet.line)
    /\ NormalisesTo(strictRet.line, Yes)

-----------------------------------------------------------------------------
(* C1 *)

\* C1: Execute is reached only after ConfirmExecution returned (true, nil)
\* and, if IsDangerous flagged the command, the line read by
\* ShowDangerWarning normalised to exactly "yes".
C1_ExecuteOnlyThroughGate ==
    (pc \in {"execute", "running"} \/ execRet.called) =>
        /\ verdict.called
        /\ confirmRet.called /\ confirmRet.ok /\ confirmRet.err.isNil
        /\ \/ ~verdict.dangerous
           \/ verdict.dangerous /\ StrictAnsweredYes

C1_Witness ==
    /\ execRet.called
    /\ verdict.dangerous
    /\ strictRet.line = <<"y", "e", "s", "\n">>
    /\ confirmRet.line = <<"y", "\n">>

-----------------------------------------------------------------------------
(* C2 *)

\* C2: IsDangerous(C, P) is true iff some pattern of P, lower-cased, is a
\* contiguous substring of lower-cased C; the match is literal.
C2_DangerousIffLiteralSubstring ==
    verdict.called =>
        (verdict.dangerous <=>
            \E k \in 1..Len(patterns) : OccursIn(patterns[k], command))

\* a lower-case pattern found in the middle of a command that spells it with U+212A
C2_Witness ==
    /\ verdict.called
    /\ verdict.dangerous
    /\ patterns = << <<"k">> >>
    /\ command = <<"r", KelvinSign, "*">>

-----------------------------------------------------------------------------
(* C3 *)

\* C3: a Dangerous verdict's reason is "Command contains dangerous pattern: "
\* followed by the original text of the first matching pattern of P; a Safe
\* verdict's reason is empty.
C3_ReasonNamesFirstMatch ==
    verdict.called =>
        IF verdict.dangerous
        THEN /\ verdict.reason # <<>>
             /\ \E k \in 1..Len(patterns) :
                   /\ OccursIn(patterns[k], command)
                   /\ \A h \in 1..(k - 1) : ~OccursIn(patterns[h], command)
                   /\ verdict.reason = ReasonPrefix \o patterns[k]
        ELSE verdict.reason = <<>>

\* two patterns match; the first is reported, in its original case
C3_Witness ==
    /\ verdict.called
    /\ patterns = << <<"R", "*">>, <<"k">> >>
    /\ command = <<"r", "*", KelvinSign>>
    /\ verdict.reason = ReasonPrefix \o <<"R", "*">>

-----------------------------------------------------------------------------
(* C4 *)

\* C4: ShowDangerWarning returns true iff the one line it read normalises to
\* exactly "yes"; any other line and a failed read return false; the prompt
\* is issued once and reads once.
C4_StrictAcceptsOnlyYes ==
    strictRet.called =>
        /\ strictRet.ok <=> (IsFullLine(strictRet.line) /\ NormalisesTo(strictRet.line, Yes))
        /\ strictRet.ok => strictRet.err.isNil
        /\ StartsWith(stdin0, strictRet.line)
        /\ \A i \in 1..(Len(strictRet.line) - 1) : strictRet.line[i] # "\n"
        /\ CountEvent("strictPrompt") = 1
        /\ CountEvent("strictRead") = 1
        /\ reads = 1 + CountEvent("confirmRead")

C4_Witness ==
    /\ strictRet.called
    /\ strictRet.ok
    /\ strictRet.line = <<" ", "Y", "E", "S", " ", "\n">>

-----------------------------------------------------------------------------
(* C5 *)

\* C5: ConfirmExecution returns true iff the one line it read normalises to
\* the empty string, "y" or "yes"; every other line read returns false.
C5_StandardAcceptsEmptyYYes ==
    confirmRet.called =>
        /\ confirmRet.ok <=>
              /\ IsFullLine(confirmRet.line)
              /\ \/ NormalisesTo(confirmRet.line, <<>>)
                 \/ NormalisesTo(confirmRet.line, Y)
                 \/ NormalisesTo(confirmRet.line, Yes)
        /\ CountEvent("confirmRead") = 1

C5_Witness ==
    /\ confirmRet.called
    /\ confirmRet.ok
    /\ confirmRet.line = <<"\n">>

-----------------------------------------------------------------------------
(* C6 *)

\* C6: for a Dangerous command, any strict answer other than normalised
\* "yes" ends the run Cancelled at once: no standard prompt, no further
\* input consumed, no Execute, whatever follows on the input.
C6_StrictDeclineCancelsAtOnce ==
    (verdict.dangerous /\ strictRet.called /\ ~StrictAnsweredYes) =>
        /\ pc = "exited" /\ exitCode = 0
        /\ out[Len(out)] = CancelledLine
        /\ ~Printed(ConfirmPromptLine)
        /\ ~HasEvent("confirmPrompt") /\ ~confirmRet.called
        /\ reads = 1
        /\ stdin = Drop(stdin0, Len(strictRet.line))
        /\ ~execRet.called /\ ~execRet.spawned /\ ~exec.made

\* "y" at the strict prompt, and a "y" the standard prompt would accept
\* is left unread
C6_Witness ==
    /\ verdict.dangerous
    /\ strictRet.line = <<"y", "\n">>
    /\ stdin = <<"y", "\n">>
    /\ pc = "exited"

-----------------------------------------------------------------------------
(* C7 *)

\* C7: the standard confirmation always precedes execution; after a strict
\* "yes" ConfirmExecution reads a second, separate line, and a decline or
\* the end of the input there ends the run Cancelled without Execute.
C7_StandardConfirmAlwaysRuns ==
    /\ (pc \in {"execute", "running"} \/ execRet.called) =>
          /\ confirmRet.called /\ confirmRet.ok
          /\ HasEvent("confirmPrompt") /\ HasEvent("confirmRead")
    /\ (verdict.dangerous /\ strictRet.called /\ strictRet.ok /\ confirmRet.called) =>
          /\ reads = 2
          /\ StartsWith(stdin0, strictRet.line \o confirmRet.line)
          /\ stdin = Drop(stdin0, Len(strictRet.line) + Len(confirmRet.line))
          /\ ~confirmRet.ok =>
                /\ pc = "exited" /\ exitCode = 0
                /\ out[Len(out)] = CancelledLine
                /\ ~execRet.called /\ ~execRet.spawned

\* scenario 3: "yes" at the strict prompt, then "n" at the standard prompt
C7_Witness ==
    /\ verdict.dangerous
    /\ strictRet.line = <<"y", "e", "s", "\n">>
    /\ confirmRet.called
    /\ confirmRet.line = <<"n", "\n">>
    /\ pc = "exited"

-----------------------------------------------------------------------------
(* C8 *)

\* the three lines of the warning are the last lines printed
WarningJustPrinted ==
    /\ Len(out) >= 3
    /\ SubSeq(out, Len(out) - 2, Len(out))
          = DangerWarningLines(IsDangerous(command, patterns).reason)

\* position of the first event e in events, 0 if there is none
FirstEvent(e) ==
    IF HasEvent(e) THEN CHOOSE i \in 1..Len(events) :
                            events[i] = e /\ \A j \in 1..(i - 1) : events[j] # e
    ELSE 0

\* C8: the strict confirmation is entered iff the classifier flagged the
\* command. Safe: no warning, no ShowDangerWarning, one read in the run.
\* Dangerous: ShowDangerWarning is called once, before ConfirmExecution,
\* with IsDangerous's reason, and the warning is printed before the read.
C8_StrictIffDangerous ==
    /\ (pc \in {"strict", "strictRead"} \/ HasEvent("strictPrompt") \/ strictRet.called) =>
          verdict.called /\ verdict.dangerous
    /\ (verdict.called /\ verdict.dangerous) =>
          /\ pc = "strict" \/ CountEvent("strictPrompt") = 1
          /\ CountEvent("strictPrompt") <= 1
          /\ pc = "strictRead" => (reads = 0 /\ WarningJustPrinted)
          /\ HasEvent("strictPrompt") =>
                /\ Printed(Line("stdout", "WARNING: Dangerous command detected!\n", <<>>))
                /\ Printed(Line("stdout", "Reason: %s\n", verdict.reason))
                /\ verdict.reason = IsDangerous(command, patterns).reason
          /\ HasEvent("strictRead") =>
                FirstEvent("strictPrompt") < FirstEvent("strictRead")
          /\ HasEvent("confirmPrompt") =>
                FirstEvent("strictRead") < FirstEvent("confirmPrompt")
    /\ (verdict.called /\ ~verdict.dangerous) =>
          /\ ~strictRet.called /\ CountEvent("strictPrompt") = 0
          /\ \A i \in 1..Len(out) :
                out[i].fmt \notin {"WARNING: Dangerous command detected!\n", "Reason: %s\n"}
          /\ reads <= 1
          /\ pc = "exited" => reads = 1

\* the warning is on the screen and nothing has been read yet
C8_Witness ==
    /\ pc = "strictRead"
    /\ verdict.dangerous
    /\ reads = 0
    /\ Printed(Line("stdout", "Reason: %s\n", ReasonPrefix \o <<"-", "R", "f">>))

-----------------------------------------------------------------------------
(* C9 *)

\* C9: whenever the gate ends in Proceed the command is run through a shell
\* subprocess, also a Dangerous command confirmed with "yes" and then
\* accepted at the standard prompt (scenario 4).
C9_ProceedRunsTheCommand ==
    (verdict.dangerous /\ strictRet.ok /\ confirmRet.ok /\ pc = "exited") =>
        execRet.called /\ execRet.spawned

-----------------------------------------------------------------------------
(* C10 *)

\* C10: Execute called directly with a command its pattern list classifies
\* Dangerous starts no subprocess, whether the context is live or done: no
\* shell is ever waited for, and Execute returns an empty output and a
\* refusal error that mentions "dangerous" and carries the classifier's
\* reason.
C10_ExecuteRefusesDangerous ==
    /\ (pc = "unitWait") =>
          /\ exec.made
          /\ \A k \in 1..Len(exec.dangerousPatterns) :
                ~OccursIn(exec.dangerousPatterns[k], command)
    /\ (pc = "unit" /\ execRet.called
        /\ \E k \in 1..Len(exec.dangerousPatterns) :
              OccursIn(exec.dangerousPatterns[k], command)) =>
        /\ ~execRet.spawned
        /\ execRet.output = <<>>
        /\ ~execRet.err.isNil
        /\ \E i \in 0..Len(execRet.err.msg) :
              StartsWith(Drop(execRet.err.msg, i), <<"d", "a", "n", "g", "e", "r", "o", "u", "s">>)
        /\ \E k \in 1..Len(exec.dangerousPatterns) :
              /\ OccursIn(exec.dangerousPatterns[k], command)
              /\ \A h \in 1..(k - 1) : ~OccursIn(exec.dangerousPatterns[h], command)
              /\ execRet.err.msg
                    = RefusedPrefix \o ReasonPrefix \o exec.dangerousPatterns[k]
        /\ ~StartsWith(execRet.err.msg, FailedPrefix)

\* a live context, never asked at any prompt, and still refused
C10_Witness ==
    /\ pc = "unit"
    /\ execRet.called
    /\ ~ctxDone
    /\ ~strictRet.called
    /\ command = <<"*", "r", "*">>
    /\ patterns = << <<"R", "*">> >>
    /\ execRet.err.msg = RefusedPrefix \o ReasonPrefix \o <<"R", "*">>

-----------------------------------------------------------------------------
(* C11 *)

\* the read of the strict / standard prompt found no complete line
StrictReadFailed == strictRet.called /\ ~IsFullLine(strictRet.line)
ConfirmReadFailed == confirmRet.called /\ ~IsFullLine(confirmRet.line)

\* C11: end of input or a read error at either prompt ends the run
\* Cancelled: the read is not retried, no further prompt is issued, Execute
\* is not called, and the exit status is not a failure.
C11_ReadFailureCancels ==
    /\ StrictReadFailed =>
          /\ ~strictRet.ok
          /\ pc = "exited" /\ exitCode = 0
          /\ events[Len(events)] = "cancelled"
          /\ CountEvent("strictRead") = 1 /\ reads = 1
          /\ ~HasEvent("confirmPrompt") /\ ~Printed(ConfirmPromptLine)
          /\ ~confirmRet.called
          /\ ~execRet.called /\ ~execRet.spawned
    /\ ConfirmReadFailed =>
          /\ ~confirmRet.ok
          /\ pc = "exited" /\ exitCode = 0
          /\ events[Len(events)] = "cancelled"
          /\ CountEvent("confirmRead") = 1 /\ CountEvent("confirmPrompt") = 1
          /\ reads = 1 + CountEvent("strictRead")
          /\ ~execRet.called /\ ~execRet.spawned

\* a read error (not end of input) at the standard prompt, after a strict "yes"
C11_Witness ==
    /\ verdict.dangerous
    /\ strictRet.ok
    /\ ConfirmReadFailed
    /\ confirmRet.err.msg = ReadFailedMsg
    /\ pc = "exited"

-----------------------------------------------------------------------------
(* C12 *)

Cancelled == HasEvent("cancelled")

\* what a run has printed when it is cancelled at the strict prompt
StrictCancelOutput ==
    << Line("stdout", "Command: %s\n", command) >>
    \o DangerWarningLines(verdict.reason)
    \o << CancelledLine >>

\* what a run has printed when it is cancelled at the standard prompt
StandardCancelOutput ==
    << Line("stdout", "Command: %s\n", command) >>
    \o (IF verdict.dangerous THEN DangerWarningLines(verdict.reason) ELSE <<>>)
    \o << ConfirmPromptLine, CancelledLine >>

\* C12: every Cancelled outcome gives the one notice, last and on stdout,
\* and exit status 0, whichever of the four causes cancelled the run: the
\* cancellation adds the notice and nothing else to what the prompts had
\* printed, so the output and the status carry nothing about the cause.
C12_CancelledIsNeutral ==
    Cancelled =>
        /\ pc = "exited" /\ exitCode = 0
        /\ Cardinality({ i \in 1..Len(out) : out[i] = CancelledLine }) = 1
        /\ out[Len(out)] = CancelledLine
        /\ \A i \in 1..Len(out) : out[i].fd = "stdout"
        /\ out = IF confirmRet.called THEN StandardCancelOutput
                                      ELSE StrictCancelOutput

\* a read failure at the strict prompt, with the output of a decline there
C12_Witness ==
    /\ Cancelled
    /\ StrictReadFailed
    /\ out = StrictCancelOutput
    /\ exitCode = 0

-----------------------------------------------------------------------------
(* C13 *)

\* the lines a run prints that say nothing about a failed read
RoutineLines ==
    { Line("stdout", "Command: %s\n", command), ConfirmPromptLine, CancelledLine }
    \cup { DangerWarningLines(verdict.reason)[i] : i \in 1..3 }

\* C13: when a confirmation read fails, the failure is reported in the
\* run's output, not only the cancellation.
C13_ReadFailureIsReported ==
    (pc = "exited" /\ (StrictReadFailed \/ ConfirmReadFailed)) =>
        \E i \in 1..Len(out) : out[i] \notin RoutineLines

-----------------------------------------------------------------------------
(* C14 *)

\* ret is one of (true, nil), (false, nil), (false, err), the last exactly
\* when the read found no complete line, err being the stream's error
TriState(ret) ==
    /\ ~(ret.ok /\ ~ret.err.isNil)
    /\ ~ret.err.isNil <=> ~IsFullLine(ret.line)
    /\ ~ret.err.isNil => ret.err = Err(stdinEnd)
    /\ ret.err.isNil => ret.err = NilErr

\* C14: each prompt returns (true, nil), (false, nil) or (false, err with
\* the cause); never (true, err), and never (false, nil) for a failed read.
C14_PromptsAreTriState ==
    /\ strictRet.called => TriState(strictRet)
    /\ confirmRet.called => TriState(confirmRet)

\* the input closed after an unfinished "yes": (false, io.EOF)
C14_Witness ==
    /\ strictRet.called
    /\ ~strictRet.ok
    /\ strictRet.err = Err(EOFMsg)
    /\ strictRet.line = <<"y", "e", "s">>

-----------------------------------------------------------------------------
(* C15 *)

\* c with the case of a letter swapped
ToggleChar(c) ==
    IF \E i \in 1..Len(Upper) : Upper[i] = c
    THEN Lower[CHOOSE i \in 1..Len(Upper) : Upper[i] = c]
    ELSE IF \E i \in 1..Len(Lower) : Lower[i] = c
         THEN Upper[CHOOSE i \in 1..Len(Lower) : Lower[i] = c]
         ELSE c

\* the commands that are c up to the case of their letters
CaseVariants(c) ==
    { c2 \in UnitCommands :
        /\ Len(c2) = Len(c)
        /\ \A i \in 1..Len(c) : ToLowerChar(c2[i]) = ToLowerChar(c[i]) }

\* c in lower case, and c with the case of every letter swapped
Lowered(c) == [i \in 1..Len(c) |-> ToLowerChar(c[i])]
Toggled(c) == [i \in 1..Len(c) |-> ToggleChar(c[i])]

\* C15: classification is invariant under the letter case of the command:
\* every command gets the verdict and the reason that the same pattern
\* list gives its lower-case form and its case-swapped form; all the
\* case-variants of a command have its lower-case form, so all of them get
\* the same verdict and reason.
C15_CaseInvariant ==
    verdict.called =>
        \A c2 \in { Lowered(command), Toggled(command) } :
            LET v2 == IsDangerous(c2, patterns) IN
            /\ v2.dangerous = verdict.dangerous
            /\ v2.reason = verdict.reason

\* a mixed-case command flagged by an upper-case pattern, as its variants are
C15_Witness ==
    /\ verdict.called
    /\ verdict.dangerous
    /\ command = <<"R", "r", "*">>
    /\ patterns = << <<"R", "*">> >>
    /\ Cardinality(CaseVariants(command)) = 4

-----------------------------------------------------------------------------
(* C17 *)

\* C17: with no patterns every command is Safe, and the empty command is
\* Dangerous exactly when the list holds the empty pattern, which is then
\* the pattern the reason names.
C17_DegenerateInputs ==
    verdict.called =>
        /\ patterns = <<>> => (~verdict.dangerous /\ verdict.reason = <<>>)
        /\ command = <<>> =>
              /\ verdict.dangerous <=> \E k \in 1..Len(patterns) : patterns[k] = <<>>
              /\ verdict.dangerous => verdict.reason = ReasonPrefix

\* the empty command, flagged by the empty pattern that follows a non-empty one
C17_Witness ==
    /\ verdict.called
    /\ verdict.dangerous
    /\ command = <<>>
    /\ patterns = << <<"k">>, <<>> >>

-----------------------------------------------------------------------------
(* C18 *)

\* s in the case it has, all lower case, and with every letter's case swapped
Recased(s) ==
    { s,
      [i \in 1..Len(s) |-> ToLowerChar(s[i])],
      [i \in 1..Len(s) |-> ToggleChar(s[i])] }

\* s without the white space at its two ends
RECURSIVE Stripped(_)
Stripped(s) ==
    IF s = <<>> THEN s
    ELSE IF IsSpace(s[1]) THEN Stripped(SubSeq(s, 2, Len(s)))
    ELSE IF IsSpace(s[Len(s)]) THEN Stripped(SubSeq(s, 1, Len(s) - 1))
    ELSE s

\* white space typed before or after an answer
Pads == { <<>>, <<" ">>, <<"\t", " ">>, <<NBSP, VT>> }

\* the lines that are line up to letter case and surrounding white space
LineVariants(line) ==
    { l \o t \o r \o <<"\n">> :
        l \in Pads, r \in Pads, t \in Recased(Stripped(line)) }

\* the complete lines a prompt can read from the streams of the bounds
FullLines ==
    { l \in { ReadString(s, EOFMsg).data : s \in Streams(MaxLines) } : IsFullLine(l) }

\* what each prompt answers to the variants of every such line, computed once
StrictOnVariants ==
    [l \in FullLines |->
        { ShowDangerWarning(ReadString(v, EOFMsg)).ok : v \in LineVariants(l) }]
StandardOnVariants ==
    [l \in FullLines |->
        { ConfirmExecution(ReadString(v, EOFMsg)).ok : v \in LineVariants(l) }]

AnsweredStrict(line) == strictRet.called /\ strictRet.line = line
AnsweredStandard(line) == confirmRet.called /\ confirmRet.line = line

\* C18: the decision of each prompt on a line is its decision on every
\* variant of the line in letter case and surrounding white space; " YES "
\* is accepted by both prompts, "Y" by the standard prompt only, and a line
\* of white space is the empty answer: yes at the standard prompt, no at
\* the strict one.
C18_DecisionIgnoresCaseAndPadding ==
    /\ (strictRet.called /\ IsFullLine(strictRet.line)) =>
          /\ strictRet.line \in FullLines
          /\ StrictOnVariants[strictRet.line] = { strictRet.ok }
    /\ (confirmRet.called /\ IsFullLine(confirmRet.line)) =>
          /\ confirmRet.line \in FullLines
          /\ StandardOnVariants[confirmRet.line] = { confirmRet.ok }
    /\ AnsweredStrict(<<" ", "Y", "E", "S", " ", "\n">>) => strictRet.ok
    /\ AnsweredStandard(<<" ", "Y", "E", "S", " ", "\n">>) => confirmRet.ok
    /\ AnsweredStrict(<<"Y", "\n">>) => ~strictRet.ok
    /\ AnsweredStandard(<<"Y", "\n">>) => confirmRet.ok
    /\ AnsweredStrict(<<" ", "\t", "\n">>) => ~strictRet.ok
    /\ AnsweredStandard(<<" ", "\t", "\n">>) => confirmRet.ok
    /\ AnsweredStrict(<<NBSP, "y", "e", "s", VT, "\r", "\n">>) => strictRet.ok
    /\ AnsweredStandard(<<NBSP, "y", "e", "s", VT, "\r", "\n">>) => confirmRet.ok

\* " YES " accepted at the strict prompt, then white space at the standard one
C18_Witness ==
    /\ AnsweredStrict(<<" ", "Y", "E", "S", " ", "\n">>)
    /\ strictRet.ok
    /\ AnsweredStandard(<<" ", "\t", "\n">>)
    /\ confirmRet.ok

-----------------------------------------------------------------------------
(* C19 *)

\* the events of a run that goes all the way, for a Dangerous or Safe verdict
FullRun(dangerous) ==
    << "generate", "display", "classify" >>
    \o (IF dangerous THEN << "strictPrompt", "strictRead" >> ELSE <<>>)
    \o << "confirmPrompt", "confirmRead", "execute" >>

IsPrefix(s, t) == Len(s) <= Len(t) /\ SubSeq(t, 1, Len(s)) = s

\* C19: the events of a run are a prefix of generate, display, classify,
\* [strict prompt and read, only if Dangerous], standard prompt and read,
\* execute, or such a prefix ending in a read followed by Cancelled; so
\* each occurs at most once and in this order. Cancelled and execute are
\* final: after them the process only waits for the shell it started and
\* exits, and a cancelled run has not called Execute.
C19_EventsFollowTheSequence ==
    /\ \/ IsPrefix(events, FullRun(verdict.dangerous))
       \/ /\ Len(events) >= 2
          /\ events[Len(events)] = "cancelled"
          /\ events[Len(events) - 1] \in {"strictRead", "confirmRead"}
          /\ IsPrefix(SubSeq(events, 1, Len(events) - 1), FullRun(verdict.dangerous))
    /\ HasEvent("strictPrompt") => verdict.dangerous
    /\ reads = CountEvent("strictRead") + CountEvent("confirmRead")
    /\ HasEvent("cancelled") => (pc = "exited" /\ ~execRet.called)
    /\ HasEvent("execute") =>
          /\ confirmRet.ok
          /\ pc \in {"running", "exited"}
          /\ pc = "exited" <=> execRet.called
    /\ pc = "exited" => ~ENABLED Next

\* a Dangerous run through both prompts to Execute
C19_Witness ==
    /\ verdict.dangerous
    /\ events = FullRun(TRUE)
    /\ pc = "exited"

-----------------------------------------------------------------------------
(* C20 *)

AtPromptRead == pc \in {"strictRead", "confirmRead"}

\* the decision that the line of a prompt produces, by the prompt's rule
LineDecidesStrict(line) == IsFullLine(line) /\ NormalisesTo(line, Yes)
LineDecidesStandard(line) ==
    /\ IsFullLine(line)
    /\ \/ NormalisesTo(line, <<>>)
       \/ NormalisesTo(line, Y)
       \/ NormalisesTo(line, Yes)

\* C20: while a prompt waits for its line, the expiry of the context's
\* deadline changes nothing of the prompt: the process stays at the read,
\* nothing is consumed, printed or decided; the wait ends only by the read
\* itself; and the decision of a read that follows an expiry is the one
\* its line produces.
C20_DeadlineDoesNotReachPrompts ==
    /\ [][(AtPromptRead /\ ctxDone' # ctxDone) =>
             UNCHANGED <<pc, stdin, out, events, reads, strictRet,
                         confirmRet, execRet, exitCode>>]_vars
    /\ [][(AtPromptRead /\ pc' # pc) => reads' = reads + 1]_vars
    /\ [](ctxDone =>
            /\ strictRet.called => (strictRet.ok <=> LineDecidesStrict(strictRet.line))
            /\ confirmRet.called => (confirmRet.ok <=> LineDecidesStandard(confirmRet.line)))

\* the deadline passed during the wait of the standard prompt, whose line
\* then gave Proceed
C20_Witness ==
    /\ expiredAtPrompt
    /\ ctxDone
    /\ ~strictRet.called
    /\ confirmRet.called
    /\ confirmRet.ok
    /\ HasEvent("execute")

-----------------------------------------------------------------------------
(* C21 *)

CommandLine == Line("stdout", "Command: %s\n", command)

\* C21: the pattern list changes only when the configuration is loaded and
\* the command only when it is generated: no prompt, classification or
\* execution step changes either; the executor is built with the pattern
\* list the gate classified with; and the command Execute receives is the
\* one that was displayed and classified.
C21_PatternsAndCommandAreFrozen ==
    /\ [][patterns' # patterns => (pc = "config" /\ pc' = "collect")]_vars
    /\ [][command' # command => (pc = "generate" /\ pc' = "display")]_vars
    /\ [](exec.made => exec.dangerousPatterns = patterns)
    /\ [](execRet.called =>
            /\ execRet.command = command
            /\ Printed(CommandLine)
            /\ Cardinality({ i \in 1..Len(out) : out[i].fmt = "Command: %s\n" }) = 1
            /\ verdict.called
            /\ verdict.dangerous <=>
                  \E k \in 1..Len(patterns) : OccursIn(patterns[k], execRet.command))

\* Execute was handed the upper-case command that the gate flagged with a
\* list of three patterns
C21_Witness ==
    /\ execRet.called
    /\ execRet.command = <<"R", "M", " ", "-", "R", "F", " ", "/", "x">>
    /\ Len(patterns) = 3
    /\ exec.dangerousPatterns = patterns
    /\ verdict.dangerous

-----------------------------------------------------------------------------
(* C24 *)

\* some pattern of the configured list occurs in the command
Flagged == \E k \in 1..Len(patterns) : OccursIn(patterns[k], command)

\* a shell subprocess was started: it is running, or Execute returned after it
ShellStarted == pc = "running" \/ execRet.spawned

\* C24: no shell subprocess is started for a command that the configured
\* pattern list flags; a flagged command that passed both confirmations
\* ends in Execute's refusal with the gate's reason, no output, and exit
\* status 1.
C24_DangerousNeverSpawns ==
    /\ (HasEvent("generate") /\ Flagged) => ~ShellStarted
    /\ (execRet.called /\ Flagged) =>
          /\ verdict.dangerous
          /\ strictRet.ok /\ confirmRet.ok
          /\ execRet.err = Err(RefusedPrefix \o verdict.reason)
          /\ execRet.output = <<>>
          /\ out[Len(out)] = Line("stderr", "Error: %v\n", RefusedPrefix \o verdict.reason)
          /\ pc = "exited"
          /\ exitCode = 1

\* "rm -rf /x", flagged by the second pattern of the list up to case,
\* confirmed twice and refused
C24_Witness ==
    /\ execRet.called
    /\ command = <<"r", "m", " ", "-", "r", "f", " ", "/", "x">>
    /\ Len(patterns) = 3
    /\ strictRet.ok
    /\ confirmRet.ok
    /\ execRet.err.msg = RefusedPrefix \o ReasonPrefix \o <<"-", "R", "f">>
    /\ exitCode = 1

-----------------------------------------------------------------------------
(* C25 *)

\* C25: a command that reached Proceed is executed however long the
\* operator took: when the deadline expired while a prompt was waiting,
\* the confirmed command is still started, and Execute does not fail for
\* the deadline.
C25_ExpiryAtPromptDoesNotFailExecution ==
    (expiredAtPrompt /\ execRet.called /\ ~Flagged) =>
        /\ execRet.spawned
        /\ execRet.err # Err(FailedPrefix \o DeadlineExceeded)

-----------------------------------------------------------------------------
(* C26 *)

\* text that the end of the input cut short of its newline
IsFragment(line) == line # <<>> /\ line[Len(line)] # "\n"

\* C26: text not ended by a newline when the input closes is a failed read
\* at either prompt, not an answer: "yes" or "y" so cut short gives
\* (false, error), and the run ends Cancelled, with exit status 0 and
\* without Execute.
C26_FragmentIsNotAnAnswer ==
    /\ (strictRet.called /\ IsFragment(strictRet.line)) =>
          /\ ~strictRet.ok /\ ~strictRet.err.isNil
          /\ ~confirmRet.called
    /\ (confirmRet.called /\ IsFragment(confirmRet.line)) =>
          /\ ~confirmRet.ok /\ ~confirmRet.err.isNil
    /\ \/ strictRet.called /\ IsFragment(strictRet.line)
       \/ confirmRet.called /\ IsFragment(confirmRet.line)
       => /\ events[Len(events)] = "cancelled"
          /\ pc = "exited" /\ exitCode = 0
          /\ ~execRet.called /\ ~execRet.spawned

\* a safe command, and "y" without newline at the standard prompt
C26_Witness ==
    /\ ~verdict.dangerous
    /\ confirmRet.called
    /\ confirmRet.line = <<"y">>
    /\ confirmRet.err = Err(EOFMsg)
    /\ pc = "exited"

-----------------------------------------------------------------------------
(* C27 *)

\* the lines of the usage text, in order
UsageText ==
    << "Usage: zchat <natural language query>\n",
       "\n",
       "Example:\n",
       "  zchat list the number of lines in analysis_data.csv\n",
       "  zchat find all python files modified in the last week\n",
       "  zchat show disk usage sorted by size\n",
       "\n",
       "Configuration:\n",
       "  Default provider: Ollama (local)\n",
       "  Default model: qwen2.5-coder:7b\n",
       "\n",
       "  To use Anthropic instead:\n",
       "    Set ANTHROPIC_API_KEY and ZCHAT_PROVIDER=anthropic\n",
       "\n",
       "  Or create ~/.config/zchat/config.yaml with:\n",
       "    provider: ollama  # or anthropic\n",
       "    model: qwen2.5-coder:7b\n",
       "    ollama_url: http://localhost:11434\n" >>

\* what main prints on stderr when a step before the gate fails
EarlyFailureFormats ==
    { "Error loading config: %v\n",
      "Error collecting context: %v\n",
      "Unknown provider: %s\n",
      "Error generating command: %v\n" }

\* the output is the usage text on stdout, or one error line on stderr
OnlyUsage ==
    /\ Len(out) = Len(UsageText)
    /\ \A i \in 1..Len(out) : out[i] = [fd |-> "stdout", fmt |-> UsageText[i], arg |-> <<>>]
OnlyOneError ==
    /\ Len(out) = 1
    /\ out[1].fd = "stderr"
    /\ out[1].fmt \in EarlyFailureFormats

\* the configuration was loaded and the switch on its provider was reached
HasSelectedProvider == provider # "" /\ shell # ""

ExecuteFailed == execRet.called /\ ~execRet.err.isNil
ExecuteSucceeded == execRet.called /\ execRet.err.isNil

\* C27: a run exits with 1 exactly when a step before the gate or Execute
\* failed, and with 0 exactly when it was cancelled or the command ran
\* without error. After a failure before the gate the only output is that
\* failure: no command displayed, no prompt, no Execute. After a failed
\* Execute the error is shown and the captured output, if any, is printed
\* after it.
C27_ExitStatus ==
    pc = "exited" =>
        /\ exitCode \in {0, 1}
        /\ exitCode = 0 <=> (HasEvent("cancelled") \/ ExecuteSucceeded)
        /\ exitCode = 1 <=> (~HasEvent("display") \/ ExecuteFailed)
        /\ ~HasEvent("display") =>
              /\ OnlyUsage \/ OnlyOneError
              /\ out[1].fmt = "Unknown provider: %s\n"
                    <=> (HasSelectedProvider /\ provider \notin {"anthropic", "ollama"})
              /\ reads = 0
              /\ ~verdict.called /\ ~strictRet.called /\ ~confirmRet.called
              /\ ~execRet.called /\ ~execRet.spawned
        /\ ExecuteFailed =>
              /\ Printed(Line("stderr", "Error: %v\n", execRet.err.msg))
              /\ execRet.output # <<>> =>
                    /\ out[Len(out)] = Line("stdout", "%s\n", execRet.output)
                    /\ out[Len(out) - 1] = Line("stderr", "Error: %v\n", execRet.err.msg)

\* the subprocess printed something and failed
C27_Witness ==
    /\ pc = "exited"
    /\ exitCode = 1
    /\ execRet.spawned
    /\ execRet.output = <<"o", "k", "\n">>
    /\ execRet.err = Err(FailedPrefix \o ExitStatus1)

-----------------------------------------------------------------------------
(* C22 *)

Blank(s) == \A i \in 1..Len(s) : IsSpace(s[i])

\* t is backticks, then white space, then backticks, each possibly empty
BackticksAroundBlank(t) ==
    \E i \in 0..Len(t) : \E j \in (i + 1)..(Len(t) + 1) :
        /\ \A k \in 1..i : t[k] = Backtick
        /\ \A k \in (i + 1)..(j - 1) : IsSpace(t[k])
        /\ \A k \in j..Len(t) : t[k] = Backtick

\* t is an opening fence line, a closing fence, and between them nothing
\* but white space inside surrounding backticks
EmptyFencedBlock(t) ==
    /\ StartsWith(t, Fence)
    /\ \E i, j \in 1..Len(t) :
          /\ i < j
          /\ t[i] = "\n" /\ t[j] = "\n"
          /\ \A k \in 1..(i - 1) : t[k] # "\n"
          /\ BackticksAroundBlank(Stripped(SubSeq(t, i + 1, j - 1)))
          /\ Drop(t, j) = Fence

\* the response is empty or blank, or is, inside surrounding white space,
\* nothing but surrounding backticks or a code fence around nothing
ReducesToNothing(r) ==
    \/ Blank(r)
    \/ BackticksAroundBlank(Stripped(r))
    \/ EmptyFencedBlock(Stripped(r))

\* C22: parseCommandFromResponse returns an error and no command, or a
\* command that is not empty and no error; it returns the error for every
\* response that is empty, blank, only backticks, or a fence around
\* nothing; and the command a client's GenerateCommand hands to main is
\* never empty.
C22_NoEmptyCommand ==
    /\ parsed.called =>
          /\ ~(parsed.cmd = <<>> /\ parsed.err.isNil)
          /\ ~parsed.err.isNil => parsed.cmd = <<>>
          /\ ReducesToNothing(response) => parsed.err = Err(EmptyResponseMsg)
    /\ generated.called =>
          /\ ~(generated.cmd = <<>> /\ generated.err.isNil)
          /\ ReducesToNothing(response) => ~generated.err.isNil

\* a code fence around a blank line: an error from both
C22_Witness ==
    /\ response = Fence \o <<"\n", " ", "\n">> \o Fence
    /\ parsed.called
    /\ ~parsed.err.isNil
    /\ generated.called
    /\ generated.err = Err(ParseFailedPrefix \o EmptyResponseMsg)

-----------------------------------------------------------------------------
(* C29 *)

\* C29: a command that parseCommandFromResponse returns has no white space
\* and no backtick at either end, and parsing it again returns it
\* unchanged.
C29_ParseIsIdempotent ==
    (parsed.called /\ parsed.err.isNil) =>
        /\ parsed.cmd # <<>>
        /\ ~IsSpace(parsed.cmd[1]) /\ parsed.cmd[1] # Backtick
        /\ ~IsSpace(parsed.cmd[Len(parsed.cmd)])
        /\ parsed.cmd[Len(parsed.cmd)] # Backtick
        /\ parseCommandFromResponse(parsed.cmd) = [cmd |-> parsed.cmd, err |-> NilErr]

-----------------------------------------------------------------------------
(* C23 *)

\* C23: getFileList returns at most maxFiles entries, for every limit from
\* 0 on and every listing, and so the Files of Collect has at most
\* maxFiles entries.
C23_AtMostMaxFiles ==
    /\ fileList.called => Len(fileList.files.items) <= maxFiles
    /\ (sysCtx.called /\ sysCtx.ok) => Len(sysCtx.files.items) <= maxFiles

-----------------------------------------------------------------------------
(* C30 *)

\* C30: whenever Collect succeeds its Files is not nil, whatever the
\* directory holds and whether or not the listing failed, and no entry of
\* Files is empty or begins with a dot.
C30_FilesInitialised ==
    (sysCtx.called /\ sysCtx.ok) =>
        /\ ~sysCtx.files.isNil
        /\ \A i \in 1..Len(sysCtx.files.items) :
              /\ sysCtx.files.items[i] # <<>>
              /\ sysCtx.files.items[i][1] # "."

-----------------------------------------------------------------------------
(* C28 *)

\* the gate was reached: the command was classified
AtGate == HasEvent("classify")

\* the gate's final states
Proceeded == confirmRet.called /\ confirmRet.ok
Decided == Proceeded \/ HasEvent("cancelled")

\* C28: when every read, the generation and the subprocess return, every
\* run ends; a run that reaches the gate reaches Proceed or Cancelled; and
\* it does so with at most one read for each prompt, two in all.
C28_EveryRunTerminates ==
    /\ <>(pc = "exited")
    /\ AtGate ~> Decided
    /\ [](/\ reads <= 2
          /\ CountEvent("strictRead") <= 1
          /\ CountEvent("confirmRead") <= 1
          /\ reads = CountEvent("strictRead") + CountEvent("confirmRead"))

\* a run ended by Proceed after two reads
C28_Witness ==
    /\ pc = "exited"
    /\ Proceeded
    /\ reads = 2
    /\ stdin0 = <<"y", "e", "s", "\n", "\n">>

====
